---- MODULE Spec2Model ----
(***************************************************************************)
(* Model of the X.com login flow of BotWitter/castle-test:                 *)
(*   core/login_flow.py    LoginFlowOrchestrator (four sequential steps)   *)
(*   core/castle_token.py  CastleTokenGenerator (time-cached token)        *)
(*   core/http_client.py   HTTPClient (cookie jar, marker extraction)      *)
(*   core/crypto.py        XPFFHeaderGenerator (header encryption)         *)
(*   main.py               main (the command-line entry point)             *)
(* The remote services, the transaction-id provider and the instrumentation*)
(* solver are the environment: every call to them either returns a value   *)
(* drawn from a small set or raises.                                       *)
(***************************************************************************)
EXTENDS Integers, Sequences, FiniteSets, TLC

VARIABLES
    guest_id,            \* LoginFlowOrchestrator.guest_id
    guest_token,         \* LoginFlowOrchestrator.guest_token
    flow_token,          \* LoginFlowOrchestrator.flow_token
    client_transaction,  \* LoginFlowOrchestrator.client_transaction is set
    cookies,             \* the session's cookie jar
    cached_token,        \* CastleTokenGenerator._cached_token
    cached_cuid,         \* CastleTokenGenerator._cached_cuid
    token_timestamp,     \* CastleTokenGenerator._token_timestamp
    now,                 \* time.time(), in seconds
    pc,                  \* position of the caller inside execute_login_flow
    attempt,             \* step 4: the loop variable
    castle_token,        \* step 4: the local of the same name
    calls,               \* execute_login_flow calls started on this instance
    result,              \* return value of the last execute_login_flow call
    log,                 \* what the current call did so far, in order
    last_token,          \* the latest security-token call of the current call
    last_post,           \* the latest flow-endpoint request (step 4: of step 4)
    entry_context,       \* guest_id, guest_token, flow_token when the step began
    xpff,                \* a use of XPFFHeaderGenerator on its own
    cli,                 \* main(): its position, its arguments, its exit code
    scan                 \* a use of HTTPClient.extract_guest_token on its own

vars == <<guest_id, guest_token, flow_token, client_transaction, cookies,
          cached_token, cached_cuid, token_timestamp, now, pc, attempt,
          castle_token, calls, result, log, last_token, last_post,
          entry_context, xpff, cli, scan>>

orchestrator == <<guest_id, guest_token, flow_token, client_transaction>>
castle == <<cached_token, cached_cuid, token_timestamp>>
step4Locals == <<attempt, castle_token>>

---------------------------------------------------------------------------
(* Values *)

\* Python's None, as a value no response carries
None == "None"

\* `not v` is False: v is neither None nor the empty string
Truthy(v) == v # None /\ v # ""

\* _token_timestamp before the first issuance (None)
NoTimestamp == -1

\* CastleTokenGenerator.CACHE_DURATION
CACHE_DURATION == 60

\* max_retries of step_4_submit_user_identifier
max_retries == 3

\* execute_login_flow calls made on the one orchestrator instance
MaxCalls == 2

\* how many times the clock is seen to advance
MaxTicks == 2

\* the clock advances by just under or just over half the cache duration, so
\* that ages of exactly CACHE_DURATION and CACHE_DURATION + 1 both occur
Deltas == {CACHE_DURATION \div 2, CACHE_DURATION \div 2 + 1}

MaxClock == MaxTicks * (CACHE_DURATION \div 2 + 1)

GuestIds == {"abc123"}
FlowTokens == {"f1", "f2"}
CastleTokens == {"c1", "c2"}
StatusCodes == {200, 201, 500}
\* client identifiers
Cuids == {"u1", "u2"}

---------------------------------------------------------------------------
(* HTTPClient._extract_between, on texts that are tuples of characters *)

\* s[from + 1 .. ] starts with pat (from is a 0-based index, as in Python)
StartsAt(text, pat, from) ==
    /\ from + Len(pat) <= Len(text)
    /\ \A k \in 1..Len(pat) : text[from + k] = pat[k]

\* str.find(pat, from): the lowest 0-based index >= from, or -1
Find(text, pat, from) ==
    LET hits == {i \in from..Len(text) : StartsAt(text, pat, i)}
    IN  IF hits = {} THEN -1
        ELSE CHOOSE i \in hits : \A j \in hits : i <= j

\* text[a:b] for 0 <= a, b <= len(text)
Slice(text, a, b) == IF b <= a THEN <<>> ELSE SubSeq(text, a + 1, b)

\* str.replace(ch, "") of a single character
RECURSIVE Remove(_, _)
Remove(text, ch) ==
    IF text = <<>> THEN <<>>
    ELSE IF Head(text) = ch THEN Remove(Tail(text), ch)
    ELSE <<Head(text)>> \o Remove(Tail(text), ch)

\* the characters of a tuple as one string
RECURSIVE Str(_)
Str(text) == IF text = <<>> THEN "" ELSE Head(text) \o Str(Tail(text))

\* the text found is returned as it stands
_extract_between_unstripped(text, start_text, end_text) ==
    LET start_index == Find(text, start_text, 0)
    IN  IF start_index = -1 THEN None
        ELSE LET s == start_index + Len(start_text)
                 end_index == Find(text, end_text, s)
             IN  IF end_index = -1 THEN None
                 ELSE Str(Slice(text, s, end_index))

_extract_between(text, start_text, end_text) ==
    LET start_index == Find(text, start_text, 0)
    IN  IF start_index = -1 THEN None
        ELSE LET s == start_index + Len(start_text)
                 end_index == Find(text, end_text, s)
             IN  IF end_index = -1 THEN None
                 ELSE Str(Remove(Remove(Slice(text, s, end_index), " "), "\n"))

extract_guest_token(html_content) ==
    _extract_between(html_content, <<"g", "t", "=">>, <<";">>)

\* login page bodies the remote service may answer with
LoginBodies ==
    { <<"g", "t", "=", "9", "9", "9", "8", "8", "8", "7", "7", "7", ";">>,
      <<"a", "g", "t", "=", " ", "8", "\n", ";", "9", ";">>,
      <<"g", "t", "=", ";">>,
      <<"g", "t", "=", "7">>,
      <<"g", "t", ";">> }

\* the longest text scanned on its own
MaxText == 6

\* every text of up to MaxText of these characters
TextChars == {"g", "t", "=", ";", " ", "\n", "7"}
Texts == UNION {[1..n -> TextChars] : n \in 0..MaxText}

\* extract_guest_token is not in use
NoScan == [stage |-> "idle"]

\* extract_guest_token(html_content) is called on the text
scan_extract ==
    /\ scan.stage = "ready"
    /\ scan' = [scan EXCEPT !.stage = "done",
                            !.result = extract_guest_token(scan.text)]
    /\ UNCHANGED <<guest_id, guest_token, flow_token, client_transaction,
                   cookies, cached_token, cached_cuid, token_timestamp, now, pc,
                   attempt, castle_token, calls, result, log, last_token,
                   last_post, entry_context, xpff, cli>>

---------------------------------------------------------------------------
(* What the environment may answer *)

\* GET https://x.com/i/flow/login: a transport error, or a page that may set
\* the guest_id cookie
LoginResponses ==
    {[raised |-> TRUE, set_cookie |-> None, body |-> <<>>]}
    \cup [raised : {FALSE}, set_cookie : {None, ""} \cup GuestIds,
          body : LoginBodies]

\* a plain collaborator call: it raises, finds nothing, or returns
CallOutcomes == {"raise", "none", "ok"}

\* POST to the flow endpoint. xpff_error: the header encryption raised before
\* the request; txn_error: the transaction-id provider raised before it; transport_error: the request raised; bad_json: the
\* body is no JSON object; json: a JSON object with or without flow_token
FlowResponses ==
    [kind : {"xpff_error", "txn_error", "transport_error"}, status : {0},
     flow_token : {None}]
    \cup [kind : {"bad_json"}, status : {500}, flow_token : {None}]
    \cup [kind : {"json"}, status : {200, 500},
          flow_token : {None, ""} \cup FlowTokens]

\* the same for the identity submission, whose body the code never parses
SubmitResponses ==
    [kind : {"xpff_error", "txn_error", "transport_error"}, status : {0},
     flow_token : {None}]
    \cup [kind : {"bad_json"}, status : {200}, flow_token : {None}]
    \cup [kind : {"json"}, status : StatusCodes, flow_token : {"f1"}]

\* POST to the issuance endpoint; token = None: the JSON has no token field
IssuanceResponses ==
    [kind : {"transport_error", "bad_json"}, token : {None}]
    \cup [kind : {"json"}, token : {None, ""} \cup CastleTokens]

---------------------------------------------------------------------------
(* CastleTokenGenerator *)

\* _generate_cuid(): 16 random bytes, an identifier not seen before
_generate_cuid(previous) == CHOOSE u \in Cuids : u # previous

\* the client identifier is generated once and then reused
generate_token_same_cuid(c, jar, resp, t) ==
    LET cuid == IF c.cuid = None THEN _generate_cuid(c.cuid) ELSE c.cuid
        jar1 == [jar EXCEPT !.cuid_x = cuid, !.cuid_twitter = cuid]
        c1 == [c EXCEPT !.cuid = cuid]
        req == <<[cuid |-> c1.cuid, cookie_x |-> jar1.cuid_x,
                  cookie_twitter |-> jar1.cuid_twitter, response |-> resp]>>
    IN  IF resp.kind # "json"
        THEN [cache |-> c1, jar |-> jar1, raised |-> TRUE, ret |-> None,
              requests |-> req, called |-> <<"generate_token">>]
        ELSE LET tok == IF resp.token = None THEN "" ELSE resp.token
             IN  [cache |-> [c1 EXCEPT !.token = tok, !.ts = t], jar |-> jar1,
                  raised |-> FALSE, ret |-> tok, requests |-> req,
                  called |-> <<"generate_token">>]

\* generate_token() at time t when the issuance endpoint answers resp.
\* c is the cache entry, jar the cookie jar.
generate_token(c, jar, resp, t) ==
    LET cuid == _generate_cuid(c.cuid)
        jar1 == [jar EXCEPT !.cuid_x = cuid, !.cuid_twitter = cuid]
        c1 == [c EXCEPT !.cuid = cuid]
        req == <<[cuid |-> c1.cuid, cookie_x |-> jar1.cuid_x,
                  cookie_twitter |-> jar1.cuid_twitter, response |-> resp]>>
    IN  IF resp.kind # "json"
        THEN [cache |-> c1, jar |-> jar1, raised |-> TRUE, ret |-> None,
              requests |-> req, called |-> <<"generate_token">>]
        ELSE LET tok == IF resp.token = None THEN "" ELSE resp.token
             IN  [cache |-> [c1 EXCEPT !.token = tok, !.ts = t], jar |-> jar1,
                  raised |-> FALSE, ret |-> tok, requests |-> req,
                  called |-> <<"generate_token">>]

\* the token expires as soon as it is CACHE_DURATION old
get_token_strict(c, jar, resp, t) ==
    LET fresh == generate_token(c, jar, resp, t)
        made == [fresh EXCEPT !.called = <<"get_token">> \o fresh.called]
    IN  IF c.token = None \/ c.ts = NoTimestamp THEN made
        ELSE IF t - c.ts >= CACHE_DURATION THEN made
        ELSE [cache |-> c, jar |-> jar, raised |-> FALSE, ret |-> c.token,
              requests |-> <<>>, called |-> <<"get_token">>]

\* the token is kept one second too long
get_token_late(c, jar, resp, t) ==
    LET fresh == generate_token(c, jar, resp, t)
        made == [fresh EXCEPT !.called = <<"get_token">> \o fresh.called]
    IN  IF c.token = None \/ c.ts = NoTimestamp THEN made
        ELSE IF t - c.ts > CACHE_DURATION + 1 THEN made
        ELSE [cache |-> c, jar |-> jar, raised |-> FALSE, ret |-> c.token,
              requests |-> <<>>, called |-> <<"get_token">>]

\* get_token() at time t; resp is used only if an issuance is made
get_token(c, jar, resp, t) ==
    LET fresh == generate_token(c, jar, resp, t)
        made == [fresh EXCEPT !.called = <<"get_token">> \o fresh.called]
    IN  IF c.token = None \/ c.ts = NoTimestamp THEN made
        ELSE IF t - c.ts > CACHE_DURATION THEN made
        ELSE [cache |-> c, jar |-> jar, raised |-> FALSE, ret |-> c.token,
              requests |-> <<>>, called |-> <<"get_token">>]

\* the cache entry as one record
Cache == [token |-> cached_token, cuid |-> cached_cuid, ts |-> token_timestamp]

SetCache(c) ==
    /\ cached_token' = c.token
    /\ cached_cuid' = c.cuid
    /\ token_timestamp' = c.ts

---------------------------------------------------------------------------
(* LoginFlowOrchestrator.execute_login_flow: the loop over the steps *)

Entry(n) ==
    CASE n = 1 -> "s1_login" [] n = 2 -> "s2" [] n = 3 -> "s3" [] n = 4 -> "s4"

\* the loop without its early return
steps_loop_no_return(n, ok) == IF n < 4 THEN Entry(n + 1) ELSE "idle"

\* where the loop goes when step n returned ok
steps_loop(n, ok) == IF ok /\ n < 4 THEN Entry(n + 1) ELSE "idle"

Invoke(n) == [ev |-> "invoke", step |-> n]
Return(n, ok) == [ev |-> "return", step |-> n, ok |-> ok]
NoEvent == [ev |-> "none"]

\* step n logs evs and returns ok to execute_login_flow
Finish(n, ok, evs) ==
    LET to == steps_loop(n, ok)
    IN  /\ pc' = to
        /\ log' = log \o evs \o <<Return(n, ok)>>
                  \o (IF to = "idle" THEN <<>> ELSE <<Invoke(n + 1)>>)
        /\ result' = IF to # "idle" THEN result
                     ELSE IF ok THEN "True" ELSE "False"

\* only steps 1 to 3 have a handler
step_catches_but_4(n) == n \in 1..3

\* the body of step n is enclosed in try / except Exception
step_catches(n) == n \in 1..4

Escape(n) == [ev |-> "escape", step |-> n]

\* something raised inside step n after it logged evs: the handler returns
\* False; without a handler the exception leaves execute_login_flow
Throw(n, evs) ==
    IF step_catches(n) THEN Finish(n, FALSE, evs)
    ELSE /\ pc' = "idle"
         /\ log' = log \o evs \o <<Escape(n)>>
         /\ result' = "Raised"

\* the step goes on to its next position
Goto(to, evs) ==
    /\ pc' = to
    /\ log' = log \o evs
    /\ result' = result

execute_login_flow ==
    /\ pc = "idle"
    /\ calls < MaxCalls
    /\ calls' = calls + 1
    /\ pc' = Entry(1)
    /\ log' = <<Invoke(1)>>
    /\ result' = None
    /\ last_token' = NoEvent
    /\ last_post' = NoEvent
    /\ UNCHANGED <<orchestrator, castle, cookies, now, step4Locals,
                   entry_context, xpff, cli, scan>>

\* Time passes. The clock is read by get_token and generate_token alone, so
\* the time that passes anywhere between two of their calls is seen here.
Tick ==
    /\ pc = "s4_token"
    /\ \E d \in Deltas :
        /\ now + d <= MaxClock
        /\ now' = now + d
    /\ UNCHANGED <<orchestrator, castle, cookies, pc, step4Locals, calls,
                   result, log, last_token, last_post, entry_context, xpff,
                   cli, scan>>

---------------------------------------------------------------------------
(* Pieces every flow-endpoint step uses *)

Get(n, url, raised) == [ev |-> "get", step |-> n, url |-> url, raised |-> raised]
\* the login page as step 1 received it: what the cookie jar holds for
\* guest_id once the response has set its cookies, and the body
Page(r, jar) == [ev |-> "page", guest_id |-> jar.guest_id, body |-> r.body]
Raise(n, what) ==
    [ev |-> "raise", step |-> n, att |-> IF n = 4 THEN attempt ELSE 0,
     what |-> what]

\* XPFFHeaderGenerator.generate_xpff(plaintext, guest_id) raises (str + None)
\* when guest_id is None, or when the cipher raises; otherwise the header is
\* keyed by guest_id
XpffRaises(r) == guest_id = None \/ r.kind = "xpff_error"

\* _generate_transaction_id raises only through a ClientTransaction; without
\* one it returns ""
TxnRaises(r) == client_transaction /\ r.kind = "txn_error"

\* response.json() raises, or .get fails on something that is no object
JsonRaises(r) == r.kind = "bad_json"

\* every request names the flow
FlowPost_flow_name_always(n, r) ==
    [ev |-> "flow_post", step |-> n, att |-> IF n = 4 THEN attempt ELSE 0,
     flow_name |-> "login",
     payload |-> IF n = 2 THEN {"input_flow_data", "subtask_versions"}
                 ELSE {"flow_token", "subtask_inputs"},
     flow_token |-> IF n = 2 THEN None ELSE flow_token,
     castle_token |-> IF n = 4 THEN castle_token ELSE None,
     guest_token |-> guest_token,
     xpff_guest_id |-> guest_id,
     transaction_id |-> client_transaction,
     raised |-> r.kind = "transport_error",
     status |-> r.status,
     response_flow_token |-> r.flow_token]

\* the flow-endpoint request of step n as it is sent (params, payload,
\* headers) and what came back
FlowPost(n, r) ==
    [ev |-> "flow_post", step |-> n, att |-> IF n = 4 THEN attempt ELSE 0,
     flow_name |-> IF n = 2 THEN "login" ELSE None,
     payload |-> IF n = 2 THEN {"input_flow_data", "subtask_versions"}
                 ELSE {"flow_token", "subtask_inputs"},
     flow_token |-> IF n = 2 THEN None ELSE flow_token,
     castle_token |-> IF n = 4 THEN castle_token ELSE None,
     guest_token |-> guest_token,
     xpff_guest_id |-> guest_id,
     transaction_id |-> client_transaction,
     raised |-> r.kind = "transport_error",
     status |-> r.status,
     response_flow_token |-> r.flow_token]

\* the same request in the log: its step, attempt and how it ended
Post(n, r) ==
    [ev |-> "post", step |-> n, att |-> IF n = 4 THEN attempt ELSE 0,
     outcome |-> IF r.kind = "transport_error" THEN "raised"
                 ELSE IF n = 4 THEN (IF r.status = 200 THEN "200" ELSE "not_200")
                 ELSE IF JsonRaises(r) THEN "bad_json"
                 ELSE IF Truthy(r.flow_token) THEN "flow_token"
                 ELSE "no_flow_token"]

\* the request goes out
Send(n, r) == last_post' = FlowPost(n, r)

---------------------------------------------------------------------------
(* step_1_fetch_login_page *)

\* the check made with `is None`: an empty cookie value passes
guest_id_not_none(gid) == gid # None

\* line 91: the guest_id taken from the cookie jar is usable
guest_id_found(gid) == Truthy(gid)

\* lines 85-102: the login page, guest_id from the cookie jar, guest_token
\* from the page
step_1_login_page ==
    /\ pc = "s1_login"
    /\ entry_context' = <<guest_id, guest_token, flow_token>>
    /\ UNCHANGED <<xpff, cli, scan>>
    /\ \E r \in LoginResponses :
        IF r.raised
        THEN /\ Throw(1, <<Get(1, "login", TRUE)>>)
             /\ UNCHANGED <<orchestrator, cookies>>
        ELSE LET jar == IF r.set_cookie = None THEN cookies
                        ELSE [cookies EXCEPT !.guest_id = r.set_cookie]
                 gid == jar.guest_id
                 gt == extract_guest_token(r.body)
                 got == <<Get(1, "login", FALSE), Page(r, jar)>>
             IN  /\ cookies' = jar
                 /\ guest_id' = gid
                 /\ UNCHANGED <<flow_token, client_transaction>>
                 /\ IF ~guest_id_found(gid)
                    THEN /\ guest_token' = guest_token
                         /\ Finish(1, FALSE, got)
                    ELSE /\ guest_token' = gt
                         /\ IF ~Truthy(gt)
                            THEN Finish(1, FALSE, got)
                            ELSE Goto("s1_home", got)
    /\ UNCHANGED <<castle, now, step4Locals, calls, last_token, last_post>>

\* lines 104-113: the home page and the ondemand.s URL found in it
step_1_home_page ==
    /\ pc = "s1_home"
    /\ UNCHANGED <<entry_context, xpff, cli, scan>>
    /\ \E o \in CallOutcomes :
        CASE o = "raise" -> Throw(1, <<Get(1, "home", TRUE)>>)
          [] o = "none" -> Finish(1, FALSE, <<Get(1, "home", FALSE)>>)
          [] o = "ok" -> Goto("s1_ondemand", <<Get(1, "home", FALSE)>>)
    /\ UNCHANGED <<orchestrator, castle, cookies, now, step4Locals, calls,
                   last_token, last_post>>

\* lines 115-125: the ondemand.s file and the ClientTransaction built from it
step_1_ondemand ==
    /\ pc = "s1_ondemand"
    /\ UNCHANGED <<entry_context, xpff, cli, scan>>
    /\ UNCHANGED <<guest_id, guest_token, flow_token, castle, cookies, now,
                   step4Locals, calls, last_token, last_post>>
    /\ \E o \in CallOutcomes \ {"none"} :
        IF o = "raise"
        THEN /\ Throw(1, <<Get(1, "ondemand", TRUE)>>)
             /\ UNCHANGED client_transaction
        ELSE /\ Finish(1, TRUE, <<Get(1, "ondemand", FALSE)>>)
             /\ client_transaction' = TRUE

---------------------------------------------------------------------------
(* step_2_initialize_flow *)

\* line 189: flow_token after a response carrying new (None: no such field)
\* a flow_token already held is kept
step_2_flow_token_if_unset(old, new) == IF Truthy(old) THEN old ELSE new

step_2_flow_token(old, new) == new

\* only a response with status 200 can make the step succeed
step_2_result_ok_only(status, new) == status = 200 /\ Truthy(new)

\* lines 188-197: what step 2 returns on a response with that status whose
\* JSON carries new as flow_token; the status is never read
step_2_result(status, new) == Truthy(new)

step_2_initialize_flow ==
    /\ pc = "s2"
    /\ entry_context' = <<guest_id, guest_token, flow_token>>
    /\ UNCHANGED <<xpff, cli, scan>>
    /\ UNCHANGED <<guest_id, guest_token, client_transaction, castle, cookies,
                   now, step4Locals, calls, last_token>>
    /\ \E r \in FlowResponses :
        IF ~Truthy(guest_token)
        THEN Finish(2, FALSE, <<>>) /\ UNCHANGED <<flow_token, last_post>>
        ELSE IF XpffRaises(r)
        THEN /\ Throw(2, <<Raise(2, "xpff")>>)
             /\ UNCHANGED <<flow_token, last_post>>
        ELSE IF r.kind = "txn_error"
        THEN /\ TxnRaises(r)
             /\ Throw(2, <<Raise(2, "transaction_id")>>)
             /\ UNCHANGED <<flow_token, last_post>>
        ELSE IF r.kind = "transport_error" \/ JsonRaises(r)
        THEN /\ Send(2, r)
             /\ Throw(2, <<Post(2, r)>>)
             /\ UNCHANGED flow_token
        ELSE /\ Send(2, r)
             /\ flow_token' = step_2_flow_token(flow_token, r.flow_token)
             /\ Finish(2, step_2_result(r.status, r.flow_token),
                       <<Post(2, r)>>)

---------------------------------------------------------------------------
(* step_3_submit_js_instrumentation *)

\* lines 210-217: the instrumentation script and its solution
step_3_js_inst ==
    /\ pc = "s3"
    /\ entry_context' = <<guest_id, guest_token, flow_token>>
    /\ UNCHANGED <<xpff, cli, scan>>
    /\ \E o \in CallOutcomes \ {"none"} :
        IF ~Truthy(flow_token)
        THEN Finish(3, FALSE, <<>>)
        ELSE IF o = "raise"
        THEN Throw(3, <<Get(3, "js_inst", TRUE)>>)
        ELSE Goto("s3_post", <<Get(3, "js_inst", FALSE)>>)
    /\ UNCHANGED <<orchestrator, castle, cookies, now, step4Locals, calls,
                   last_token, last_post>>

\* the field assigned before the check, as step 2 does
step_3_flow_token_unchecked(old, new) == new

\* the token of the response is dropped
step_3_flow_token_kept(old, new) == old

\* lines 256-259: flow_token after a response carrying new
step_3_flow_token(old, new) == IF Truthy(new) THEN new ELSE old

\* the check made with `is not None`: an empty flow_token passes
step_3_result_not_none(new) == new # None

\* lines 258-264: what step 3 returns on that response
step_3_result(new) == Truthy(new)

\* lines 219-267: the subtask is posted and the new flow_token kept
step_3_post ==
    /\ pc = "s3_post"
    /\ UNCHANGED <<entry_context, xpff, cli, scan>>
    /\ UNCHANGED <<guest_id, guest_token, client_transaction, castle, cookies,
                   now, step4Locals, calls, last_token>>
    /\ \E r \in FlowResponses :
        IF XpffRaises(r)
        THEN /\ Throw(3, <<Raise(3, "xpff")>>)
             /\ UNCHANGED <<flow_token, last_post>>
        ELSE IF r.kind = "txn_error"
        THEN /\ TxnRaises(r)
             /\ Throw(3, <<Raise(3, "transaction_id")>>)
             /\ UNCHANGED <<flow_token, last_post>>
        ELSE IF r.kind = "transport_error" \/ JsonRaises(r)
        THEN /\ Send(3, r)
             /\ Throw(3, <<Post(3, r)>>)
             /\ UNCHANGED flow_token
        ELSE /\ Send(3, r)
             /\ flow_token' = step_3_flow_token(flow_token, r.flow_token)
             /\ Finish(3, step_3_result(r.flow_token), <<Post(3, r)>>)

---------------------------------------------------------------------------
(* step_4_submit_user_identifier *)

\* every attempt takes the cached token
castle_token_cached(att, c, jar, resp, t) == get_token(c, jar, resp, t)

\* lines 289-296: the token of attempt att, forced fresh on a retry
castle_token_for(att, c, jar, resp, t) ==
    IF att > 0 THEN generate_token(c, jar, resp, t)
    ELSE get_token(c, jar, resp, t)

\* the loop gives up one attempt early
after_submit_short(att, status) ==
    IF status = 200 THEN "return_true"
    ELSE IF att + 1 < max_retries - 1 THEN "next_attempt"
    ELSE "return_false"

\* the loop makes one attempt too many
after_submit_long(att, status) ==
    IF status = 200 THEN "return_true"
    ELSE IF att + 1 <= max_retries THEN "next_attempt"
    ELSE "return_false"

\* every 2xx status counts as success
after_submit_2xx(att, status) ==
    IF status \in 200..299 THEN "return_true"
    ELSE IF att + 1 < max_retries THEN "next_attempt"
    ELSE "return_false"

\* lines 287, 353-365: what follows a submission answered with status
after_submit(att, status) ==
    IF status = 200 THEN "return_true"
    ELSE IF att + 1 < max_retries THEN "next_attempt"
    ELSE "return_false"

\* whatever the token call returned is submitted
after_token_unchecked(att, ret) == "submit"

\* a token call without a usable token ends the step
after_token_fatal(att, ret) ==
    IF Truthy(ret) THEN "submit" ELSE "return_false"

\* lines 298-302: what follows a token call that returned ret
after_token(att, ret) ==
    IF Truthy(ret) THEN "submit"
    ELSE IF att = max_retries - 1 THEN "return_false"
    ELSE "next_attempt"

\* the security-token call of attempt att as it went: the method called, the
\* issuance requests it sent, the cache entry before and after, the time
TokenCall(att, before, t, at) ==
    [ev |-> "token_call", step |-> 4, att |-> att,
     fn |-> Head(t.called), issuances |-> t.requests, raised |-> t.raised,
     ret |-> t.ret, before |-> before, after |-> t.cache, at |-> at]

\* the same call in the log
Token(att, t) ==
    [ev |-> "token", step |-> 4, att |-> att,
     fn |-> Head(t.called), issued |-> Len(t.requests), raised |-> t.raised,
     usable |-> Truthy(t.ret)]

\* step 4 returns: its locals are gone
Finish4(ok, evs) ==
    /\ Finish(4, ok, evs)
    /\ attempt' = 0
    /\ castle_token' = None

\* step 4 leaves through an exception
Throw4(evs) ==
    /\ Throw(4, evs)
    /\ attempt' = 0
    /\ castle_token' = None

\* lines 280-286
step_4_enter ==
    /\ pc = "s4"
    /\ entry_context' = <<guest_id, guest_token, flow_token>>
    /\ UNCHANGED <<xpff, cli, scan>>
    /\ IF ~Truthy(flow_token)
       THEN Finish4(FALSE, <<>>)
       ELSE /\ Goto("s4_token", <<>>)
            /\ attempt' = 0
            /\ castle_token' = None
    /\ last_post' = NoEvent
    /\ UNCHANGED <<orchestrator, castle, cookies, now, calls, last_token>>

\* lines 287-302: the security token of this attempt
step_4_token ==
    /\ pc = "s4_token"
    /\ UNCHANGED <<entry_context, xpff, cli, scan>>
    /\ \E resp \in IssuanceResponses :
        LET t == castle_token_for(attempt, Cache, cookies, resp, now)
            ev == <<Token(attempt, t)>>
            to == after_token(attempt, t.ret)
        IN  /\ SetCache(t.cache)
            /\ cookies' = t.jar
            /\ last_token' = TokenCall(attempt, Cache, t, now)
            /\ IF t.raised
               THEN Throw4(ev)
               ELSE IF to = "return_false"
               THEN Finish4(FALSE, ev)
               ELSE IF to = "next_attempt"
               THEN /\ Goto("s4_token", ev)
                    /\ attempt' = attempt + 1
                    /\ castle_token' = t.ret
               ELSE /\ Goto("s4_post", ev)
                    /\ attempt' = attempt
                    /\ castle_token' = t.ret
    /\ UNCHANGED <<orchestrator, now, calls, last_post>>

\* lines 304-368: the identifier is submitted and the status decides
step_4_post ==
    /\ pc = "s4_post"
    /\ UNCHANGED <<entry_context, xpff, cli, scan>>
    /\ \E r \in SubmitResponses :
        IF XpffRaises(r)
        THEN Throw4(<<Raise(4, "xpff")>>) /\ UNCHANGED last_post
        ELSE IF r.kind = "txn_error"
        THEN /\ TxnRaises(r)
             /\ Throw4(<<Raise(4, "transaction_id")>>)
             /\ UNCHANGED last_post
        ELSE IF r.kind = "transport_error"
        THEN Send(4, r) /\ Throw4(<<Post(4, r)>>)
        ELSE LET to == after_submit(attempt, r.status)
             IN  /\ Send(4, r)
                 /\ CASE to = "return_true" -> Finish4(TRUE, <<Post(4, r)>>)
                      [] to = "return_false" -> Finish4(FALSE, <<Post(4, r)>>)
                      [] to = "next_attempt" ->
                           /\ Goto("s4_token", <<Post(4, r)>>)
                           /\ attempt' = attempt + 1
                           /\ castle_token' = castle_token
    /\ UNCHANGED <<orchestrator, castle, cookies, now, calls, last_token>>

---------------------------------------------------------------------------
(* XPFFHeaderGenerator. Bytes are 0..255; a str is a tuple of characters.   *)
(* sha256 and AES-256-GCM belong to the libraries the code calls: they are  *)
(* modelled by functions that have their contract on the values drawn here *)
(* (a digest that tells the inputs apart, a keyed byte-wise stream, a       *)
(* 16-byte keyed tag that changes with the key and with every ciphertext    *)
(* byte).                                                                   *)

\* the longest plaintext encrypted
MaxPlain == 2

\* get_random_bytes(12)
NONCE_BYTES == 12
\* the GCM tag
TAG_BYTES == 16

RECURSIVE SumSeq(_)
SumSeq(bytes) == IF bytes = <<>> THEN 0 ELSE Head(bytes) + SumSeq(Tail(bytes))

\* str.encode() and bytes.decode() on the characters used here
Chars == <<"0", "1", "2", "a", "b", "e", "g">>
Codes == <<48, 49, 50, 97, 98, 101, 103>>
Ord(ch) == Codes[CHOOSE i \in DOMAIN Chars : Chars[i] = ch]
Chr(b) ==
    IF \E i \in DOMAIN Codes : Codes[i] = b
    THEN Chars[CHOOSE i \in DOMAIN Codes : Codes[i] = b]
    ELSE "?"
encode(text) == [i \in 1..Len(text) |-> Ord(text[i])]
decode(bytes) == [i \in 1..Len(bytes) |-> Chr(bytes[i])]

\* binascii.hexlify(...).decode() and binascii.unhexlify
HexDigits ==
    <<"0", "1", "2", "3", "4", "5", "6", "7", "8", "9", "a", "b", "c", "d",
      "e", "f">>
HexValue(d) == (CHOOSE i \in DOMAIN HexDigits : HexDigits[i] = d) - 1
hexlify(bytes) ==
    [k \in 1..(2 * Len(bytes)) |->
        IF k % 2 = 1 THEN HexDigits[(bytes[(k + 1) \div 2] \div 16) + 1]
        ELSE HexDigits[(bytes[k \div 2] % 16) + 1]]
unhexlify(hex_string) ==
    [i \in 1..(Len(hex_string) \div 2) |->
        16 * HexValue(hex_string[2 * i - 1]) + HexValue(hex_string[2 * i])]

\* hashlib.sha256(data).digest(): 32 bytes
RECURSIVE Mixed(_)
Mixed(data) ==
    IF data = <<>> THEN 7
    ELSE (Mixed(SubSeq(data, 1, Len(data) - 1)) * 257 + data[Len(data)]) % 65521
sha256(data) ==
    LET h == Mixed(data)
    IN  [i \in 1..32 |-> IF i % 2 = 1 THEN (h \div 256 + i - 1) % 256
                         ELSE (h + i - 2) % 256]

\* AES.new(key, AES.MODE_GCM, nonce=nonce): the keystream byte at position i
KeyStream(key, nonce, i) == (key[1] + 3 * key[2] + SumSeq(nonce) + 7 * i) % 256

\* the tag of ciphertext under key and nonce
Tag(key, nonce, ciphertext) ==
    [j \in 1..TAG_BYTES |->
        IF j = 1 THEN (key[1] + SumSeq(nonce)) % 256
        ELSE IF j = 2 THEN (key[2] + Len(ciphertext)) % 256
        ELSE IF j - 2 <= Len(ciphertext)
        THEN (ciphertext[j - 2] + key[1] + j) % 256
        ELSE (key[2] + j) % 256]

\* cipher.encrypt_and_digest(data)
encrypt_and_digest(key, nonce, data) ==
    LET ciphertext ==
            [i \in 1..Len(data) |-> (data[i] + KeyStream(key, nonce, i)) % 256]
    IN  [ciphertext |-> ciphertext, tag |-> Tag(key, nonce, ciphertext)]

\* cipher.decrypt_and_verify(ciphertext, tag): ValueError on a wrong tag
decrypt_and_verify(key, nonce, ciphertext, tag) ==
    IF Tag(key, nonce, ciphertext) # tag
    THEN [raised |-> TRUE, data |-> <<>>]
    ELSE [raised |-> FALSE,
          data |-> [i \in 1..Len(ciphertext) |->
                       (ciphertext[i] + 256 - KeyStream(key, nonce, i)) % 256]]

\* raw[a:b] of Python, for 0 <= a and any b (negative: from the end)
PySlice(raw, a, b) ==
    LET e == IF b < 0 THEN Len(raw) + b ELSE b
    IN  Slice(raw, a, IF e > Len(raw) THEN Len(raw) ELSE e)

\* the key is derived from the base key alone
_derive_xpff_key_no_guest(base_key, gid) == sha256(encode(base_key))

_derive_xpff_key(base_key, gid) == sha256(encode(base_key \o gid))

\* the tag is put before the ciphertext
generate_xpff_tag_first(base_key, plaintext, gid, nonce) ==
    LET key == _derive_xpff_key(base_key, gid)
        sealed == encrypt_and_digest(key, nonce, encode(plaintext))
    IN  hexlify(nonce \o sealed.tag \o sealed.ciphertext)

\* generate_xpff(plaintext, guest_id) when get_random_bytes(12) returns nonce
generate_xpff(base_key, plaintext, gid, nonce) ==
    LET key == _derive_xpff_key(base_key, gid)
        sealed == encrypt_and_digest(key, nonce, encode(plaintext))
        encrypted_data == nonce \o sealed.ciphertext \o sealed.tag
    IN  hexlify(encrypted_data)

\* decode_xpff: the plaintext, or the exception of decrypt_and_verify
decode_xpff(base_key, hex_string, gid) ==
    LET key == _derive_xpff_key(base_key, gid)
        raw == unhexlify(hex_string)
        nonce == PySlice(raw, 0, NONCE_BYTES)
        ciphertext == PySlice(raw, NONCE_BYTES, 0 - TAG_BYTES)
        tag == PySlice(raw, Len(raw) - TAG_BYTES, Len(raw))
        opened == decrypt_and_verify(key, nonce, ciphertext, tag)
    IN  IF opened.raised THEN [raised |-> TRUE, plaintext |-> <<>>]
        ELSE [raised |-> FALSE, plaintext |-> decode(opened.data)]

\* what is encrypted, with which secret, for which session
BaseKeys == {<<"0", "e">>, <<"0", "e", "g">>}
SessionIds == {<<"g">>, <<"g", "1">>, <<"1">>}
Plaintexts ==
    UNION {[1..n -> {"a", "b"}] : n \in 0..MaxPlain}
Nonces == {[i \in 1..NONCE_BYTES |-> (s + 11 * i) % 256] : s \in {0, 250}}

\* the generator is not in use
NoXpff == [stage |-> "idle"]

\* a header is produced for plaintext and guest_id
xpff_generate ==
    /\ xpff.stage = "ready"
    /\ \E nonce \in Nonces :
        xpff' = [xpff EXCEPT
                    !.stage = "encoded",
                    !.nonce = nonce,
                    !.hex_string = generate_xpff(xpff.base_key, xpff.plaintext,
                                                 xpff.guest_id, nonce)]
    /\ UNCHANGED <<orchestrator, castle, cookies, now, pc, step4Locals, calls,
                   result, log, last_token, last_post, entry_context, cli, scan>>

\* one hex digit of the ciphertext or of the tag is changed on the way
xpff_tamper ==
    /\ xpff.stage = "encoded"
    /\ xpff.tampered = "no"
    /\ \E k \in (2 * NONCE_BYTES + 1)..Len(xpff.hex_string) :
        \E d \in {HexDigits[i] : i \in DOMAIN HexDigits} \ {xpff.hex_string[k]} :
            xpff' = [xpff EXCEPT
                        !.hex_string = [xpff.hex_string EXCEPT ![k] = d],
                        !.tampered =
                            IF k > Len(xpff.hex_string) - 2 * TAG_BYTES
                            THEN "tag" ELSE "ciphertext"]
    /\ UNCHANGED <<orchestrator, castle, cookies, now, pc, step4Locals, calls,
                   result, log, last_token, last_post, entry_context, cli, scan>>

\* the header is decoded for some guest_id
xpff_decode ==
    /\ xpff.stage = "encoded"
    /\ \E gid \in SessionIds :
        LET out == decode_xpff(xpff.base_key, xpff.hex_string, gid)
        IN  xpff' = [xpff EXCEPT
                        !.stage = "decoded",
                        !.decode_guest_id = gid,
                        !.raised = out.raised,
                        !.decoded = out.plaintext]
    /\ UNCHANGED <<orchestrator, castle, cookies, now, pc, step4Locals, calls,
                   result, log, last_token, last_post, entry_context, cli, scan>>

---------------------------------------------------------------------------
(* main(): the command-line entry point, on arguments that were parsed *)

\* --api-key as parsed: not given, given empty, given
ApiKeys == {None, "", "key"}

\* the orchestrator is used without main
NoCli == [stage |-> "none"]

\* the exit code unset
NoExitCode == -1

\* every outcome exits with 0
exit_code_always_0(success) == 0

\* lines 140-145: the exit code for the value execute_login_flow returned
exit_code_of(success) == IF success THEN 0 ELSE 1

\* main returns code
Exit(code) == cli' = [cli EXCEPT !.stage = "exited", !.exit_code = code]

\* lines 95-135: logging, proxy, HTTPClient and LoginFlowOrchestrator are set
\* up, then the API key is required. The set-up may raise or be interrupted.
main_start ==
    /\ cli.stage = "start"
    /\ \E o \in {"ok", "raise", "interrupt"} :
        IF o # "ok"
        THEN cli' = [cli EXCEPT !.stage = "exited", !.exit_code = 1,
                                !.setup = o]
        ELSE IF ~Truthy(cli.api_key)
        THEN cli' = [cli EXCEPT !.stage = "exited", !.exit_code = 1,
                                !.setup = o]
        ELSE cli' = [cli EXCEPT !.stage = "running", !.setup = o]
    /\ UNCHANGED <<orchestrator, castle, cookies, now, pc, step4Locals, calls,
                   result, log, last_token, last_post, entry_context, xpff, scan>>

\* line 138: the one call of execute_login_flow
main_call_flow ==
    /\ cli.stage = "running"
    /\ calls = 0
    /\ execute_login_flow

\* lines 138-145: the flow returned
main_return ==
    /\ cli.stage = "running"
    /\ calls = 1
    /\ pc = "idle"
    /\ Exit(exit_code_of(result = "True"))
    /\ UNCHANGED <<orchestrator, castle, cookies, now, pc, step4Locals, calls,
                   result, log, last_token, last_post, entry_context, xpff, scan>>

\* lines 147-149: the user interrupts while the flow waits on a call; the
\* KeyboardInterrupt passes the steps' `except Exception` and ends the flow
main_interrupt ==
    /\ cli.stage = "running"
    /\ pc # "idle"
    /\ pc' = "idle"
    /\ attempt' = 0
    /\ castle_token' = None
    /\ Exit(1)
    /\ UNCHANGED <<orchestrator, castle, cookies, now, calls, result, log,
                   last_token, last_post, entry_context, xpff, scan>>

---------------------------------------------------------------------------
(* The program *)

\* LoginFlowOrchestrator.__init__ and CastleTokenGenerator.__init__
Constructed ==
    /\ guest_id = None
    /\ guest_token = None
    /\ flow_token = None
    /\ client_transaction = FALSE
    /\ cookies = [guest_id |-> None, cuid_x |-> None, cuid_twitter |-> None]
    /\ cached_token = None
    /\ cached_cuid = None
    /\ token_timestamp = NoTimestamp
    /\ now = 0
    /\ pc = "idle"
    /\ attempt = 0
    /\ castle_token = None
    /\ calls = 0
    /\ result = None
    /\ log = <<>>
    /\ last_token = NoEvent
    /\ last_post = NoEvent
    /\ entry_context = <<None, None, None>>

Init == Constructed /\ xpff = NoXpff /\ cli = NoCli /\ scan = NoScan

Next ==
    \/ execute_login_flow
    \/ step_1_login_page
    \/ step_1_home_page
    \/ step_1_ondemand
    \/ step_2_initialize_flow
    \/ step_3_js_inst
    \/ step_3_post
    \/ step_4_enter
    \/ step_4_token
    \/ step_4_post
    \/ Tick

Spec == Init /\ [][Next]_vars

\* a call that was made returns or raises: the step waiting on it goes on
Progress ==
    \/ step_1_login_page
    \/ step_1_home_page
    \/ step_1_ondemand
    \/ step_2_initialize_flow
    \/ step_3_js_inst
    \/ step_3_post
    \/ step_4_enter
    \/ step_4_token
    \/ step_4_post

\* the program when no network or collaborator call hangs
LiveSpec == Init /\ [][Next]_vars /\ WF_vars(Progress)

\* XPFFHeaderGenerator(base_key) used on its own: encrypt, perhaps tamper,
\* decrypt
XpffInit ==
    /\ Constructed
    /\ cli = NoCli
    /\ scan = NoScan
    /\ xpff \in [stage : {"ready"}, base_key : BaseKeys, guest_id : SessionIds,
                 plaintext : Plaintexts, nonce : {<<>>}, hex_string : {<<>>},
                 tampered : {"no"}, decode_guest_id : {<<>>},
                 raised : {FALSE}, decoded : {<<>>}]

XpffNext ==
    \/ xpff_generate
    \/ xpff_tamper
    \/ xpff_decode

XpffSpec == XpffInit /\ [][XpffNext]_vars

\* HTTPClient.extract_guest_token applied to a text
ScanInit ==
    /\ Constructed
    /\ xpff = NoXpff
    /\ cli = NoCli
    /\ scan \in [stage : {"ready"}, text : Texts, result : {None}]

ScanNext == scan_extract

ScanSpec == ScanInit /\ [][ScanNext]_vars

\* the program as it is run from the command line
MainInit ==
    /\ Constructed
    /\ xpff = NoXpff
    /\ scan = NoScan
    /\ cli \in [stage : {"start"}, api_key : ApiKeys, setup : {None},
                 exit_code : {NoExitCode}]

MainNext ==
    \/ main_start
    \/ main_call_flow
    \/ step_1_login_page
    \/ step_1_home_page
    \/ step_1_ondemand
    \/ step_2_initialize_flow
    \/ step_3_js_inst
    \/ step_3_post
    \/ step_4_enter
    \/ step_4_token
    \/ step_4_post
    \/ Tick
    \/ main_return
    \/ main_interrupt

MainSpec == MainInit /\ [][MainNext]_vars

---------------------------------------------------------------------------
(* Reading the log of the current call *)

Events(kind) == SelectSeq(log, LAMBDA e : e.ev = kind)
Has(e) == \E i \in DOMAIN log : log[i] = e
Count(P(_)) == Cardinality({i \in DOMAIN log : P(log[i])})

IsInvoke(e) == e.ev = "invoke"
IsReturn(e) == e.ev = "return"
\* a flow-endpoint request of step 4 (an identity submission)
IsSubmit(e) == e.ev = "post" /\ e.step = 4
\* a security-token call of step 4
IsToken(e) == e.ev = "token"
\* a token call that went through generate_token from the retry branch
IsForced(e) == IsToken(e) /\ e.fn = "generate_token"
\* something in step 4 raised
Raised4(e) ==
    \/ e.ev = "raise" /\ e.step = 4
    \/ IsToken(e) /\ e.raised
    \/ IsSubmit(e) /\ e.outcome = "raised"

\* the last thing the current call did
Last == log[Len(log)]

\* in step 4 of the current call every issuance returned a usable token and
\* nothing raised
Step4Smooth ==
    \A i \in DOMAIN log :
        /\ ~Raised4(log[i])
        /\ IsToken(log[i]) => log[i].usable

---------------------------------------------------------------------------
(* C1: execute_login_flow invokes step 1, 2, 3, 4 in this order, each at    *)
(* most once; step N+1 only after step N returned success; after the first *)
(* failing step nothing more is invoked and the call returns failure; it   *)
(* returns success only when all four steps returned success.              *)
C1_StepsInOrder ==
    LET inv == Events("invoke")
    IN  /\ Len(inv) <= 4
        /\ \A k \in DOMAIN inv : inv[k].step = k
        /\ \A i \in DOMAIN log :
            /\ (IsInvoke(log[i]) /\ log[i].step > 1) =>
                   /\ i > 1
                   /\ log[i - 1] = Return(log[i].step - 1, TRUE)
            /\ (IsReturn(log[i]) /\ ~log[i].ok) =>
                   /\ i = Len(log)
                   /\ pc = "idle"
                   /\ result = "False"
        /\ result = "True" => \A n \in 1..4 : Has(Return(n, TRUE))
        /\ (calls > 0 /\ pc = "idle") => result \in {"True", "False"}
        /\ pc # "idle" => result = None

\* the second call on the instance stopped at step 3, after steps 1 and 2
C1_Witness ==
    /\ calls = 2
    /\ result = "False"
    /\ Has(Return(2, TRUE))
    /\ Last = Return(3, FALSE)

\* the token an issuance response yields (line 104: get("token", ""))
TokenOf(resp) == IF resp.token = None THEN "" ELSE resp.token

---------------------------------------------------------------------------
(* C2: step 4 makes at most 3 attempts; the first takes its security token  *)
(* through get_token, every later one through generate_token (a forced     *)
(* issuance) before it resubmits; the token a forced issuance of attempt k  *)
(* returned is the one attempt k's submission carries.                      *)
C2_RetryTokens ==
    /\ Count(IsToken) <= max_retries
    /\ Count(IsSubmit) <= max_retries
    /\ \A i \in DOMAIN log :
        /\ IsToken(log[i]) =>
            /\ log[i].att \in 0..(max_retries - 1)
            /\ log[i].att = 0 => log[i].fn = "get_token"
            /\ log[i].att > 0 =>
                   log[i].fn = "generate_token" /\ log[i].issued = 1
            /\ \A j \in 1..(i - 1) : IsToken(log[j]) => log[j].att < log[i].att
        /\ IsSubmit(log[i]) =>
            /\ i > 1
            /\ IsToken(log[i - 1])
            /\ log[i - 1].att = log[i].att
    /\ (/\ last_post.ev = "flow_post"
        /\ last_post.step = 4
        /\ last_token.ev = "token_call"
        /\ last_token.att = last_post.att) =>
            /\ last_post.castle_token = last_token.ret
            /\ last_post.att > 0 =>
                /\ Len(last_token.issuances) = 1
                /\ last_post.castle_token =
                       TokenOf(last_token.issuances[1].response)

\* the third attempt was submitted with a forced token that is not the one
\* cached before it
C2_Witness ==
    /\ last_post.ev = "flow_post"
    /\ last_post.step = 4
    /\ last_post.att = 2
    /\ last_token.ev = "token_call"
    /\ last_token.att = 2
    /\ Truthy(last_token.before.token)
    /\ last_token.before.token # last_post.castle_token

---------------------------------------------------------------------------
(* C3: in step 4, when every issuance returns a usable token and nothing    *)
(* raises, non-200 answers to the first k-1 submissions and 200 to the k-th *)
(* make the step succeed after exactly k submissions and exactly k-1 forced *)
(* regenerations; [500, 500, 200] succeeds with exactly 2.                  *)
C3_SucceedsOnAttemptK ==
    Step4Smooth =>
        /\ \A i \in DOMAIN log :
            (IsSubmit(log[i]) /\ log[i].outcome = "200") =>
                /\ Has(Return(4, TRUE))
                /\ result = "True"
                /\ Count(IsSubmit) = log[i].att + 1
                /\ Count(IsForced) = log[i].att
                /\ \A j \in DOMAIN log \ {i} :
                       IsSubmit(log[j]) => j < i /\ log[j].outcome = "not_200"
        /\ (/\ Count(IsSubmit) \in 1..(max_retries - 1)
            /\ \A i \in DOMAIN log :
                   IsSubmit(log[i]) => log[i].outcome = "not_200") =>
                /\ ~Has(Return(4, FALSE))
                /\ pc \in {"s4_token", "s4_post"}

\* two submissions were refused and the third was answered 200
C3_Witness ==
    /\ Step4Smooth
    /\ Count(IsSubmit) = 3
    /\ Count(IsForced) = 2
    /\ last_post.ev = "flow_post"
    /\ last_post.att = 2
    /\ last_post.status = 200
    /\ result = "True"

\* an identity submission answered with a status other than 200
Refused(e) == IsSubmit(e) /\ e.outcome = "not_200"

---------------------------------------------------------------------------
(* C4: in step 4, when every issuance returns a usable token and nothing    *)
(* raises, three submissions answered with a status other than 200 make the *)
(* step and execute_login_flow fail after exactly 3 submissions; no fourth  *)
(* submission and no further issuance follow.                               *)
C4_FailsAfterThree ==
    /\ Count(IsSubmit) <= max_retries
    /\ (Step4Smooth /\ Count(Refused) = max_retries) =>
        /\ Len(log) > 1
        /\ Last = Return(4, FALSE)
        /\ Refused(log[Len(log) - 1])
        /\ pc = "idle"
        /\ result = "False"
        /\ Count(IsSubmit) = max_retries
        /\ Count(IsToken) = max_retries

\* three refused submissions, the last one with status 500
C4_Witness ==
    /\ Step4Smooth
    /\ Count(Refused) = 3
    /\ last_post.status = 500
    /\ result = "False"

---------------------------------------------------------------------------
(* C5: in step 4 an exception raised during an attempt (by the token call,  *)
(* the header construction or the submission request) counts as one failed *)
(* attempt: while attempts remain the next attempt is still made, and the   *)
(* step fails only when the 3-attempt budget is used up.                    *)
C5_ExceptionConsumesOneSlot ==
    \A i \in DOMAIN log :
        (Raised4(log[i]) /\ log[i].att < max_retries - 1) =>
            ~(i < Len(log) /\ log[i + 1] = Return(4, FALSE))

\* a step-2 or step-3 request whose response carries no usable flow_token
NoFlowToken(e) ==
    /\ e.ev = "post"
    /\ e.step \in {2, 3}
    /\ e.outcome \in {"no_flow_token", "bad_json"}

---------------------------------------------------------------------------
(* C6: when the flow-endpoint response of step 2 or step 3 has no           *)
(* flow_token field or an empty one, that step returns failure,             *)
(* execute_login_flow halts there, and no later step is invoked and no      *)
(* later flow-endpoint request is sent.                                     *)
C6_MissingFlowTokenHalts ==
    \A i \in DOMAIN log :
        NoFlowToken(log[i]) =>
            /\ i + 1 = Len(log)
            /\ log[i + 1] = Return(log[i].step, FALSE)
            /\ pc = "idle"
            /\ result = "False"

\* step 3 was answered with an empty flow_token
C6_Witness ==
    /\ Len(log) > 1
    /\ NoFlowToken(log[Len(log) - 1])
    /\ last_post.ev = "flow_post"
    /\ last_post.step = 3
    /\ last_post.response_flow_token = ""
    /\ last_post.status = 200
    /\ Last = Return(3, FALSE)

---------------------------------------------------------------------------
(* C7: over any sequence of execute_login_flow calls on one instance, the   *)
(* step-2 request is sent only with guest_id and guest_token both non-empty *)
(* and the step-3 and step-4 requests only with flow_token non-empty.       *)
C7_NoRequestWithoutPredecessor ==
    last_post.ev = "flow_post" =>
        /\ last_post.step = 2 =>
            /\ Truthy(last_post.xpff_guest_id)
            /\ Truthy(last_post.guest_token)
        /\ last_post.step \in {3, 4} => Truthy(last_post.flow_token)

\* the second call on the instance got as far as submitting the identifier
C7_Witness ==
    /\ calls = 2
    /\ last_post.ev = "flow_post"
    /\ last_post.step = 4
    /\ Has(Return(2, TRUE))

\* the Session Context, and: the current call just had a step return failure
Context == <<guest_id, guest_token, flow_token>>
StepFailed == Len(log) > 0 /\ IsReturn(Last) /\ ~Last.ok

---------------------------------------------------------------------------
(* C8, as claimed: when a step returns failure, guest_id, guest_token and   *)
(* flow_token hold the values they had when the step began.                 *)
C8_FailedStepLeavesContext == StepFailed => Context = entry_context

\* C8, amended: a failing step 3 or 4 leaves all three fields as they were; a
\* failing step 1 leaves flow_token, and a failing step 2 leaves guest_id and
\* guest_token, as they were; step 1 may leave guest_id and guest_token as
\* newly read, and step 2 leaves in flow_token either the old value or the
\* missing one it read.
C8_FailedStepFrame ==
    StepFailed =>
        /\ Last.step \in {3, 4} => Context = entry_context
        /\ Last.step = 1 => flow_token = entry_context[3]
        /\ Last.step = 2 =>
            /\ guest_id = entry_context[1]
            /\ guest_token = entry_context[2]
            /\ flow_token = entry_context[3] \/ ~Truthy(flow_token)

\* step 3 failed on a response without flow_token and kept step 2's token
C8_Witness ==
    /\ StepFailed
    /\ Last.step = 3
    /\ Len(log) > 1
    /\ NoFlowToken(log[Len(log) - 1])
    /\ Truthy(flow_token)
    /\ last_post.response_flow_token # flow_token

\* the latest security-token call of the current call was get_token()
GetTokenCalled == last_token.ev = "token_call" /\ last_token.fn = "get_token"

\* how old the cached token was when the latest token call was made
AgeAtCall == last_token.at - last_token.before.ts

---------------------------------------------------------------------------
(* C9: after a successful generate_token, a get_token call made while       *)
(* now - issuedAt <= 60 s (exactly 60 included) returns the cached token,   *)
(* sends no issuance request and leaves the cache entry (token, cuid,       *)
(* timestamp) unchanged.                                                    *)
C9_CachedWithinDuration ==
    (/\ GetTokenCalled
     /\ Truthy(last_token.before.token)
     /\ last_token.before.ts # NoTimestamp
     /\ AgeAtCall <= CACHE_DURATION) =>
        /\ last_token.issuances = <<>>
        /\ ~last_token.raised
        /\ last_token.ret = last_token.before.token
        /\ last_token.after = last_token.before
        /\ Cache = last_token.before

\* get_token was called on a token exactly CACHE_DURATION old
C9_Witness ==
    /\ GetTokenCalled
    /\ Truthy(last_token.before.token)
    /\ last_token.before.ts # NoTimestamp
    /\ AgeAtCall = CACHE_DURATION
    /\ castle_token = last_token.before.token

---------------------------------------------------------------------------
(* C10: a get_token call made when nothing is cached or when                *)
(* now - issuedAt > 60 s sends exactly one issuance request, returns that   *)
(* issuance's result, and sets issuedAt to the time of that issuance.       *)
C10_ExpiredIssuesOnce ==
    (/\ GetTokenCalled
     /\ \/ last_token.before.token = None
        \/ last_token.before.ts = NoTimestamp
        \/ AgeAtCall > CACHE_DURATION) =>
        /\ Len(last_token.issuances) = 1
        /\ ~last_token.raised =>
            /\ last_token.ret = TokenOf(last_token.issuances[1].response)
            /\ last_token.after.token = last_token.ret
            /\ last_token.after.ts = last_token.at
            /\ cached_token = last_token.ret
            /\ token_timestamp = last_token.at

\* get_token was called on a token CACHE_DURATION + 1 old and returned a new one
C10_Witness ==
    /\ GetTokenCalled
    /\ Truthy(last_token.before.token)
    /\ last_token.before.ts # NoTimestamp
    /\ AgeAtCall = CACHE_DURATION + 1
    /\ ~last_token.raised
    /\ Truthy(last_token.ret)
    /\ last_token.ret # last_token.before.token
    /\ token_timestamp = now

\* the latest security-token call of the current call ran generate_token(),
\* directly or from get_token()
Issued == last_token.ev = "token_call" /\ last_token.issuances # <<>>

\* the one issuance request of that call
Issuance == last_token.issuances[1]

---------------------------------------------------------------------------
(* C11: in every state a caller can see after a generate_token call,        *)
(* returned or raised, the cached token, client identifier and timestamp    *)
(* belong to one issuance: a call that raised left the whole entry as it    *)
(* was, a call that returned replaced all three.                            *)
C11_IssuanceAtomic ==
    Issued =>
        IF last_token.raised
        THEN Cache = last_token.before
        ELSE /\ cached_cuid = Issuance.cuid
             /\ cached_token = TokenOf(Issuance.response)
             /\ token_timestamp = last_token.at

---------------------------------------------------------------------------
(* C12: generate_token raises whenever the issuance response carries no     *)
(* usable token (no token field, or an empty one); it never returns an      *)
(* empty token and never stores one as the cached token.                    *)
C12_NoUsableTokenRaises ==
    /\ (Issued /\ ~Truthy(Issuance.response.token)) =>
            /\ last_token.raised
            /\ last_token.after.token = last_token.before.token
    /\ cached_token # ""

---------------------------------------------------------------------------
(* C13: every generate_token call that returns, whatever the cache held     *)
(* (a token younger than 60 s included), sent exactly one issuance POST     *)
(* with a newly generated client identifier, set that identifier as the     *)
(* __cuid cookie of .x.com and of .twitter.com, replaced the cached token   *)
(* and timestamp, and returned the new token.                               *)
C13_AlwaysFreshIssuance ==
    /\ (last_token.ev = "token_call" /\ last_token.fn = "generate_token") =>
            Len(last_token.issuances) = 1
    /\ (Issued /\ ~last_token.raised) =>
            /\ Len(last_token.issuances) = 1
            /\ Issuance.cuid # last_token.before.cuid
            /\ Issuance.cuid \in Cuids
            /\ Issuance.cookie_x = Issuance.cuid
            /\ Issuance.cookie_twitter = Issuance.cuid
            /\ cookies.cuid_x = Issuance.cuid
            /\ cookies.cuid_twitter = Issuance.cuid
            /\ cached_cuid = Issuance.cuid
            /\ last_token.ret = TokenOf(Issuance.response)
            /\ cached_token = last_token.ret
            /\ token_timestamp = last_token.at

\* a retry forced an issuance while the cached token was still fresh, and
\* the new token replaced it
C13_Witness ==
    /\ Issued
    /\ last_token.fn = "generate_token"
    /\ ~last_token.raised
    /\ Truthy(last_token.before.token)
    /\ last_token.at - last_token.before.ts < CACHE_DURATION
    /\ Truthy(last_token.ret)
    /\ last_token.ret # last_token.before.token
    /\ cached_token = last_token.ret

\* a token call of step 4 that returned, but without a usable token
Unusable(e) == IsToken(e) /\ ~e.raised /\ ~e.usable

---------------------------------------------------------------------------
(* C14: in step 4 a token call that returns no usable token uses up one     *)
(* attempt: no identity submission is sent for that attempt; on attempt 1   *)
(* or 2 the step goes on and the next thing it does is a forced issuance    *)
(* for the next attempt; on attempt 3 the step returns failure. A later     *)
(* attempt answered 200 still makes the step succeed.                       *)
C14_EmptyTokenConsumesSlot ==
    \A i \in DOMAIN log :
        /\ Unusable(log[i]) =>
            /\ \A j \in DOMAIN log :
                   IsSubmit(log[j]) => log[j].att # log[i].att
            /\ IF log[i].att = max_retries - 1
               THEN /\ i + 1 = Len(log)
                    /\ Last = Return(4, FALSE)
               ELSE IF i = Len(log)
               THEN /\ pc = "s4_token"
                    /\ attempt = log[i].att + 1
               ELSE /\ IsForced(log[i + 1])
                    /\ log[i + 1].att = log[i].att + 1
                    /\ log[i + 1].issued = 1
        /\ (IsSubmit(log[i]) /\ log[i].outcome = "200") =>
               Has(Return(4, TRUE))

\* the first attempt got an empty token, the second was forced, submitted
\* and accepted
C14_Witness ==
    /\ Len(log) > 3
    /\ \E i \in DOMAIN log : Unusable(log[i]) /\ log[i].att = 0
    /\ last_token.ev = "token_call"
    /\ last_token.att = 1
    /\ last_post.ev = "flow_post"
    /\ last_post.att = 1
    /\ last_post.status = 200
    /\ Count(IsSubmit) = 1
    /\ result = "True"

\* a GET of the login page by step 1
IsLoginGet(e) == e.ev = "get" /\ e.step = 1 /\ e.url = "login"

\* the login page of the scenario: body gt=999888777;
ExampleBody == <<"g", "t", "=", "9", "9", "9", "8", "8", "8", "7", "7", "7", ";">>

---------------------------------------------------------------------------
(* C15: step 1 fetches the login page once; when the guest_id cookie or the *)
(* text between "gt=" and ";" is absent or empty it returns failure at once;*)
(* otherwise it keeps both and goes on to locate the script URL; it returns *)
(* success only with both values non-empty and the script fetched. A page   *)
(* setting guest_id=abc123 with body gt=999888777; leaves guest_id =        *)
(* "abc123" and guest_token = "999888777".                                  *)
(* (The page's cookie is read from the jar, where the response put it.)     *)
C15_Step1NeedsBoth ==
    /\ Count(IsLoginGet) <= 1
    /\ \A i \in DOMAIN log :
        log[i].ev = "page" =>
            LET gt == extract_guest_token(log[i].body)
            IN  /\ guest_id = log[i].guest_id
                /\ IF Truthy(log[i].guest_id) /\ Truthy(gt)
                   THEN /\ guest_token = gt
                        /\ i < Len(log) => log[i + 1] = Get(1, "home", TRUE)
                                           \/ log[i + 1] = Get(1, "home", FALSE)
                        /\ i = Len(log) => pc = "s1_home"
                   ELSE /\ i + 1 = Len(log)
                        /\ Last = Return(1, FALSE)
                        /\ result = "False"
                /\ (log[i].guest_id = "abc123" /\ log[i].body = ExampleBody) =>
                       /\ guest_id = "abc123"
                       /\ guest_token = "999888777"
                       /\ ~(i < Len(log) /\ log[i + 1] = Return(1, FALSE))
    /\ Has(Return(1, TRUE)) =>
            /\ Truthy(guest_id)
            /\ Truthy(guest_token)
            /\ client_transaction
            /\ Has(Get(1, "home", FALSE))
            /\ Has(Get(1, "ondemand", FALSE))

\* the page of the scenario was received and step 1 went on
C15_Witness ==
    /\ \E i \in DOMAIN log :
        /\ log[i].ev = "page"
        /\ log[i].guest_id = "abc123"
        /\ log[i].body = ExampleBody
    /\ guest_id = "abc123"
    /\ guest_token = "999888777"
    /\ Has(Return(1, TRUE))

\* the latest flow-endpoint request was an identity submission that was answered
Answered ==
    /\ last_post.ev = "flow_post"
    /\ last_post.step = 4
    /\ ~last_post.raised

---------------------------------------------------------------------------
(* C16: an identity submission makes step 4 succeed exactly when its status *)
(* is 200, whatever the body; with any other status (201 included) the      *)
(* attempt failed: on attempt 1 or 2 the step goes on to the next attempt,  *)
(* on attempt 3 the step and execute_login_flow return failure.             *)
C16_SuccessIsStatus200 ==
    /\ Has(Return(4, TRUE)) => Answered /\ last_post.status = 200
    /\ Answered =>
        IF last_post.status = 200
        THEN /\ Last = Return(4, TRUE)
             /\ result = "True"
        ELSE /\ ~Has(Return(4, TRUE))
             /\ result # "True"
             /\ IF last_post.att = max_retries - 1
                THEN /\ Last = Return(4, FALSE)
                     /\ result = "False"
                ELSE IsSubmit(Last) =>
                        /\ pc = "s4_token"
                        /\ attempt = last_post.att + 1

\* the third submission was answered 201 and the flow failed
C16_Witness ==
    /\ Answered
    /\ last_post.status = 201
    /\ last_post.att = 2
    /\ Count(Refused) = 3
    /\ Last = Return(4, FALSE)
    /\ result = "False"

\* a collaborator call of the current call raised
Raising(e) ==
    \/ e.ev = "raise"
    \/ e.ev = "get" /\ e.raised
    \/ e.ev = "post" /\ e.outcome \in {"raised", "bad_json"} /\ e.step # 4
    \/ e.ev = "post" /\ e.outcome = "raised" /\ e.step = 4
    \/ IsToken(e) /\ e.raised

---------------------------------------------------------------------------
(* C17: no exception leaves the orchestrator: whenever a collaborator call  *)
(* raises inside a step (transport, JSON decoding, transaction-id provider, *)
(* instrumentation solver, token issuance, header encryption), that step    *)
(* returns False at once and execute_login_flow returns False.              *)
C17_NoExceptionEscapes ==
    /\ result # "Raised"
    /\ \A i \in DOMAIN log :
        /\ log[i].ev # "escape"
        /\ Raising(log[i]) =>
            /\ i + 1 = Len(log)
            /\ Last = Return(log[i].step, FALSE)
            /\ pc = "idle"
            /\ result = "False"

\* the issuance of the second attempt of step 4 raised and the call
\* returned False
C17_Witness ==
    /\ Len(log) > 1
    /\ IsToken(log[Len(log) - 1])
    /\ log[Len(log) - 1].raised
    /\ log[Len(log) - 1].att = 1
    /\ Last = Return(4, FALSE)
    /\ result = "False"

\* the header of the latest use as generate_xpff built it, in bytes
Sealed ==
    encrypt_and_digest(_derive_xpff_key(xpff.base_key, xpff.guest_id),
                       xpff.nonce, encode(xpff.plaintext))

---------------------------------------------------------------------------
(* C18: for every base key, guest_id, plaintext (the empty one included)    *)
(* and nonce, decode_xpff(generate_xpff(plaintext, guest_id), guest_id)     *)
(* returns plaintext; the header is the lower-case hex of                   *)
(* nonce (12 bytes) || ciphertext || tag (16 bytes).                        *)
C18_XpffRoundTrip ==
    /\ (xpff.stage \in {"encoded", "decoded"} /\ xpff.tampered = "no") =>
        LET raw == unhexlify(xpff.hex_string)
        IN  /\ Len(xpff.hex_string) = 2 * (12 + Len(xpff.plaintext) + 16)
            /\ \A k \in DOMAIN xpff.hex_string :
                   \E i \in DOMAIN HexDigits : xpff.hex_string[k] = HexDigits[i]
            /\ SubSeq(raw, 1, 12) = xpff.nonce
            /\ SubSeq(raw, 13, Len(raw) - 16) = Sealed.ciphertext
            /\ SubSeq(raw, Len(raw) - 15, Len(raw)) = Sealed.tag
    /\ (/\ xpff.stage = "decoded"
        /\ xpff.tampered = "no"
        /\ xpff.decode_guest_id = xpff.guest_id) =>
            /\ ~xpff.raised
            /\ xpff.decoded = xpff.plaintext

\* the empty plaintext went through encryption and decryption
C18_Witness ==
    /\ xpff.stage = "decoded"
    /\ xpff.tampered = "no"
    /\ xpff.decode_guest_id = xpff.guest_id
    /\ xpff.plaintext = <<>>
    /\ Len(xpff.hex_string) = 56
    /\ ~xpff.raised
    /\ xpff.decoded = <<>>

---------------------------------------------------------------------------
(* C19: decode_xpff of a header one of whose ciphertext or tag bytes was    *)
(* changed, or with a guest_id other than the one used to encrypt, raises   *)
(* and returns no plaintext.                                                *)
C19_XpffIntegrity ==
    (/\ xpff.stage = "decoded"
     /\ \/ xpff.tampered # "no"
        \/ xpff.decode_guest_id # xpff.guest_id) =>
        /\ xpff.raised
        /\ xpff.decoded = <<>>

\* an untouched header of a non-empty plaintext was decoded with another
\* guest_id and rejected
C19_Witness ==
    /\ xpff.stage = "decoded"
    /\ xpff.tampered = "no"
    /\ xpff.decode_guest_id # xpff.guest_id
    /\ Len(xpff.plaintext) = 2
    /\ xpff.raised

\* execute_login_flow was called once and all four steps returned success
FullSuccess ==
    /\ calls = 1
    /\ result = "True"
    /\ \A n \in 1..4 : Has(Return(n, TRUE))

---------------------------------------------------------------------------
Posted == last_post.ev = "flow_post"

---------------------------------------------------------------------------
(* C21: after a successful flow-endpoint exchange of step 2, 3 or 4 whose   *)
(* response returned a flow_token, the stored flow_token is that token.     *)
C21_FlowTokenOverwritten ==
    (/\ Posted
     /\ Has(Return(last_post.step, TRUE))
     /\ Truthy(last_post.response_flow_token)) =>
        flow_token = last_post.response_flow_token

\* the login page this call's step 1 received
PageOf(i) == log[i].ev = "page"

\* what holds of every request sent
C22_Forward ==
    /\ Posted =>
        /\ \E i \in DOMAIN log : PageOf(i)
        /\ \A i \in DOMAIN log :
            PageOf(i) =>
                /\ last_post.guest_token = extract_guest_token(log[i].body)
                /\ last_post.xpff_guest_id = log[i].guest_id
    /\ (Posted /\ last_post.step = 4) =>
        /\ last_post.flow_token = entry_context[3]
        /\ flow_token = entry_context[3]

\* what holds of every step from one request to the next
C22_Handover ==
    /\ (/\ last_post' # last_post
        /\ last_post'.ev = "flow_post"
        /\ last_post'.step = 3) =>
            /\ Posted
            /\ last_post.step = 2
            /\ last_post'.flow_token = last_post.response_flow_token
    /\ (pc = "s4" /\ pc' = "s4_token") =>
            /\ Posted
            /\ last_post.step = 3
            /\ entry_context'[3] = last_post.response_flow_token

---------------------------------------------------------------------------
(* C22: within one execute_login_flow call the step-3 request carries the   *)
(* flow_token of this call's step-2 response; every step-4 attempt carries  *)
(* the flow_token of this call's step-3 response, the same on every retry;  *)
(* the guest token header and the guest_id keying the fingerprint header of *)
(* steps 2 to 4 are the values this call's step 1 read.                     *)
C22_DataFlowsForward == [](C22_Forward) /\ [][C22_Handover]_vars

\* the third identity submission of the second call on the instance
C22_Witness ==
    /\ calls = 2
    /\ Posted
    /\ last_post.step = 4
    /\ last_post.att = 2
    /\ last_post.flow_token = "f2"
    /\ \E i \in DOMAIN log : PageOf(i)

\* a flow-endpoint request in the log
IsPost(e) == e.ev = "post"

---------------------------------------------------------------------------
(* C23: of the flow-endpoint POSTs of one call, the step-2 one is the first *)
(* and carries flow_name=login, input_flow_data and subtask_versions and no *)
(* flow_token; the later ones (step 3, every step-4 attempt) carry no       *)
(* flow_name, and carry flow_token and subtask_inputs.                      *)
C23_FlowNameOnFirstOnly ==
    /\ Posted =>
        IF last_post.step = 2
        THEN /\ last_post.flow_name = "login"
             /\ last_post.payload = {"input_flow_data", "subtask_versions"}
             /\ last_post.flow_token = None
        ELSE /\ last_post.step \in {3, 4}
             /\ last_post.flow_name = None
             /\ last_post.payload = {"flow_token", "subtask_inputs"}
             /\ Truthy(last_post.flow_token)
    /\ \A i \in DOMAIN log :
        IsPost(log[i]) =>
            (log[i].step = 2 <=> \A j \in 1..(i - 1) : ~IsPost(log[j]))

\* a retry of the identity submission was sent without flow_name
C23_Witness ==
    /\ Posted
    /\ last_post.step = 4
    /\ last_post.att = 1
    /\ last_post.flow_name = None
    /\ Count(IsPost) = 4

\* execute_login_flow has returned True or False to its caller
Returned == pc = "idle" /\ result \in {"True", "False"}

---------------------------------------------------------------------------
(* C24: when every network and collaborator call returns or raises, every   *)
(* execute_login_flow call that was started returns, with True or with      *)
(* False and nothing else; the retry loop of step 4 makes at most 3         *)
(* iterations. (Control is with the caller again and again: no call stays  *)
(* inside execute_login_flow for ever; and whenever it is with the caller   *)
(* after a call, that call returned True or False.)                         *)
C24_Terminates ==
    /\ []<>(pc = "idle")
    /\ []((calls > 0 /\ pc = "idle") => Returned)
    /\ [](attempt < max_retries /\ Count(IsToken) <= max_retries)

\* a call returned after the retry loop had made its three iterations
C24_Witness ==
    /\ Returned
    /\ Count(IsToken) = 3
    /\ Count(IsSubmit) = 3
    /\ calls = 2

\* where "gt=" begins in the text scanned, and where a ";" stands (1-based)
Markers ==
    {i \in 1..(Len(scan.text) - 2) :
        scan.text[i] = "g" /\ scan.text[i + 1] = "t" /\ scan.text[i + 2] = "="}
Semicolons(from) == {j \in from..Len(scan.text) : scan.text[j] = ";"}
Least(S) == CHOOSE x \in S : \A y \in S : x <= y

\* the text between the first "gt=" and the first ";" after it, without its
\* spaces and newlines
Between ==
    LET first == Least(Markers) + 3
        last == Least(Semicolons(first)) - 1
    IN  Str(SelectSeq(SubSeq(scan.text, first, last),
                      LAMBDA ch : ch \notin {" ", "\n"}))

---------------------------------------------------------------------------
(* C25: extract_guest_token(text) is None when "gt=" does not occur in text *)
(* or no ";" follows its first occurrence; otherwise it is the text between *)
(* the end of the first "gt=" and the first ";" after it with every space   *)
(* and newline removed, which is the empty string, a failure for step 1,    *)
(* when nothing else lies between them.                                     *)
C25_ExtractGuestToken ==
    scan.stage = "done" =>
        IF Markers = {} THEN scan.result = None
        ELSE IF Semicolons(Least(Markers) + 3) = {} THEN scan.result = None
        ELSE /\ scan.result = Between
             /\ scan.result # None
             /\ Least(Semicolons(Least(Markers) + 3)) = Least(Markers) + 3 =>
                    scan.result = "" /\ ~Truthy(scan.result)

\* a text with something before the marker and a newline inside the token
C25_Witness ==
    /\ scan.stage = "done"
    /\ scan.text = <<"7", "g", "t", "=", "\n", "7", ";">>
       \/ scan.text = <<"g", "t", "=", "\n", "7", ";">>
    /\ scan.result = "7"

---------------------------------------------------------------------------
(* C26: the API key is optional: when main is started without one and its   *)
(* set-up went well, the program still runs the login flow.                 *)
C26_FlowRunsWithoutApiKey ==
    (/\ cli.stage = "exited"
     /\ cli.setup = "ok"
     /\ ~Truthy(cli.api_key)) =>
        calls > 0

---------------------------------------------------------------------------
(* C27: every identity submission step 4 sends carries a non-empty security *)
(* token, the one the token call of that attempt returned, whatever the     *)
(* cache held before (an empty token cached by an earlier issuance          *)
(* included) and whatever the issuances answered.                           *)
C27_SubmissionCarriesToken ==
    /\ (Posted /\ last_post.step = 4) =>
            /\ Truthy(last_post.castle_token)
            /\ last_post.castle_token \in CastleTokens
    /\ pc = "s4_post" =>
            /\ Truthy(castle_token)
            /\ last_token.ev = "token_call"
            /\ last_token.att = attempt
            /\ castle_token = last_token.ret

\* a second call found an empty token in the cache, and its submission
\* went out with the token of a new issuance
C27_Witness ==
    /\ Posted
    /\ last_post.step = 4
    /\ last_post.att = 0
    /\ calls = 2
    /\ last_token.before.token = ""
    /\ last_token.fn = "get_token"
    /\ Len(last_token.issuances) = 1
    /\ last_post.castle_token \in CastleTokens

\* the latest request is the one step n sent, and it was answered
AnsweredPost(n) == Posted /\ last_post.step = n /\ ~last_post.raised

---------------------------------------------------------------------------
(* C28: steps 2 and 3 decide on the response body alone: a step whose       *)
(* request was answered returns success exactly when the response carries a *)
(* non-empty flow_token, whatever the status code, and failure otherwise.   *)
C28_BodyDecides ==
    \A n \in {2, 3} :
        AnsweredPost(n) =>
            /\ Has(Return(n, TRUE)) <=> Truthy(last_post.response_flow_token)
            /\ Has(Return(n, FALSE)) <=> ~Truthy(last_post.response_flow_token)
            /\ \A st \in {200, 500} :
                   (last_post.status = st /\ last_post.response_flow_token = "f1")
                       => Has(Return(n, TRUE))

\* step 3 was answered 500 with a flow_token, returned success, and the
\* flow went on into step 4
C28_Witness ==
    /\ AnsweredPost(3)
    /\ last_post.status = 500
    /\ last_post.response_flow_token = "f2"
    /\ Has(Return(3, TRUE))
    /\ Has(Return(2, TRUE))
    /\ pc = "s4"
    /\ flow_token = "f2"

\* the call is in step 3 or step 4
PastStep2 == pc \in {"s3", "s3_post", "s4", "s4_token", "s4_post"}

\* what holds whenever a call is in step 3 or 4, and of every request
C29_OwnStep2 ==
    /\ PastStep2 =>
        /\ \E i \in DOMAIN log :
               /\ IsPost(log[i])
               /\ log[i].step = 2
               /\ log[i].outcome = "flow_token"
               /\ i < Len(log)
               /\ log[i + 1] = Return(2, TRUE)
        /\ Truthy(flow_token)
    /\ (Posted /\ last_post.step = 2) =>
        /\ last_post.flow_token = None
        /\ "flow_token" \notin last_post.payload

\* what holds of the step that takes a call from step 2 into step 3
C29_Replace ==
    (pc = "s2" /\ pc' = "s3") =>
        /\ last_post'.ev = "flow_post"
        /\ last_post'.step = 2
        /\ flow_token' = last_post'.response_flow_token
        /\ entry_context'[3] = flow_token

---------------------------------------------------------------------------
(* C29: also in a second or later execute_login_flow call on the same       *)
(* orchestrator, a call is in step 3 or step 4 only after its own step 2    *)
(* was answered with a flow_token and returned success, and that step       *)
(* replaced whatever flow_token the instance held, a token of an earlier    *)
(* call included, by the one of its response; the step-2 request itself     *)
(* carries no flow_token.                                                   *)
C29_NoStaleFlowToken == [](C29_OwnStep2) /\ [][C29_Replace]_vars

\* the second call entered step 2 holding the first call's f1 and leaves it
\* holding the f2 of its own response
C29_Witness ==
    /\ calls = 2
    /\ pc = "s3"
    /\ entry_context[3] = "f1"
    /\ Posted
    /\ last_post.step = 2
    /\ last_post.response_flow_token = "f2"
    /\ flow_token = "f2"

====
